---- MODULE Spec2Model ----
(***************************************************************************)
(* The crate publish orchestrator of scripts/publish.py: the dependency    *)
(* graph of the workspace crates, the publish order computed by            *)
(* graphlib.TopologicalSorter, and the walk of Publisher.publish over the  *)
(* registry (cargo search / cargo publish / time.sleep).                   *)
(*                                                                         *)
(* Package names are the integers 1..NumNames; their numeric order stands  *)
(* for the lexicographic order of the names.  A Python Optional[str] is a  *)
(* sequence of length 0 (None) or 1.                                       *)
(***************************************************************************)
EXTENDS Integers, Sequences, FiniteSets, TLC

\* ---------------------------------------------------------------- bounds
\* names, and dependency entries in all, of a workspace whose order is computed
NumNames == 3
MaxEdges == 3
\* names of a workspace that is walked once, and its size: its dependency
\* entries, its crates with a version other than the workspace version and the
\* packages the registry shows at first, in all
WalkNames == 2
WalkSize == 2
\* the same for a workspace that is walked a second time
RerunNames == 2
RerunSize == 1
\* the same for a workspace whose partly failed walk is resumed
ResumeNames == 3
ResumeSize == 2
\* the same for a workspace that is published with every combination of the
\* command-line arguments
CliNames == 2
CliSize == 1
\* names of a workspace one of whose manifests has a conditional section, a
\* renamed or a registry dependency, and its plain path dependencies in all
TomlNames == 2
TomlDecls == 1
\* distinct version strings
MaxVer == 3
\* make-release.py: lines of one `gh pr checks` output, iterations of one of its
\* waiting loops, calls of `say`
MaxLines == 2
MaxPolls == 2
MaxSays == 2

\* time.sleep(16)
SleepSeconds == 16

Names == 1..NumNames
Versions == 1..MaxVer
None == <<>>
Some(v) == <<v>>

Range(s) == {s[i] : i \in 1..Len(s)}

\* the sequences without repetition over S, of length at most n
RECURSIVE SeqsNoDup(_, _)
SeqsNoDup(S, n) ==
  IF n = 0 \/ S = {} THEN {<<>>}
  ELSE {<<>>} \cup UNION {{<<x>> \o t : t \in SeqsNoDup(S \ {x}, n - 1)} : x \in S}

\* the orders in which the elements of the finite set S can be enumerated
Perms(S) == {p \in SeqsNoDup(S, Cardinality(S)) : Len(p) = Cardinality(S)}

\* ------------------------------------------------- graphlib.TopologicalSorter
\* _node2info is an insertion-ordered dict: nodes is its key order, npred and
\* succ are the npredecessors and successors fields of the _NodeInfo entries.
EmptySorter ==
  [nodes |-> <<>>, npred |-> [n \in Names |-> 0], succ |-> [n \in Names |-> <<>>]]

\* TopologicalSorter._get_nodeinfo
GetNodeInfo(ts, node) ==
  IF node \in Range(ts.nodes) THEN ts ELSE [ts EXCEPT !.nodes = Append(@, node)]

\* the loop "for pred in predecessors" of TopologicalSorter.add
RECURSIVE AddPreds(_, _, _, _)
AddPreds(ts, node, preds, i) ==
  IF i > Len(preds) THEN ts
  ELSE LET t1 == GetNodeInfo(ts, preds[i])
       IN AddPreds([t1 EXCEPT !.succ[preds[i]] = Append(@, node)], node, preds, i + 1)

\* TopologicalSorter.add(node, *predecessors)
SorterAdd(ts, node, preds) ==
  LET t1 == GetNodeInfo(ts, node)
      t2 == [t1 EXCEPT !.npred[node] = @ + Len(preds)]
  IN AddPreds(t2, node, preds, 1)

\* a loop that adds the crates without their dependencies
RECURSIVE FillSorterNoDeps(_, _, _)
FillSorterNoDeps(ts, cs, i) ==
  IF i > Len(cs) THEN ts
  ELSE FillSorterNoDeps(SorterAdd(ts, cs[i].name, <<>>), cs, i + 1)

\* "for crate in self.crates: topological_sorter.add(crate.name, *crate.dependencies)"
RECURSIVE FillSorter(_, _, _)
FillSorter(ts, cs, i) ==
  IF i > Len(cs) THEN ts
  ELSE FillSorter(SorterAdd(ts, cs[i].name, cs[i].dependencies), cs, i + 1)

IndexIn(s, x) == CHOOSE i \in 1..Len(s) : s[i] = x

\* TopologicalSorter._find_cycle: an iterative depth-first search along the
\* successor lists.  stack is the path, its[k] the position the iterator of
\* stack[k] reads next; node2stacki is the position of a node in stack.
RECURSIVE CycleVisit(_, _, _, _, _)
RECURSIVE CycleBacktrack(_, _, _, _)
CycleVisit(ts, node, stack, its, seen) ==
  IF node \in seen
  THEN IF node \in Range(stack)
       THEN [cycle |-> SubSeq(stack, IndexIn(stack, node), Len(stack)) \o <<node>>,
             seen |-> seen]
       ELSE CycleBacktrack(ts, stack, its, seen)
  ELSE CycleBacktrack(ts, Append(stack, node), Append(its, 1), seen \cup {node})
CycleBacktrack(ts, stack, its, seen) ==
  IF stack = <<>> THEN [cycle |-> <<>>, seen |-> seen]
  ELSE LET top == stack[Len(stack)]
           i == its[Len(its)]
       IN IF i <= Len(ts.succ[top])
          THEN CycleVisit(ts, ts.succ[top][i], stack,
                          [its EXCEPT ![Len(its)] = i + 1], seen)
          ELSE CycleBacktrack(ts, SubSeq(stack, 1, Len(stack) - 1),
                              SubSeq(its, 1, Len(its) - 1), seen)

RECURSIVE FindCycleFrom(_, _, _)
FindCycleFrom(ts, k, seen) ==
  IF k > Len(ts.nodes) THEN <<>>
  ELSE IF ts.nodes[k] \in seen THEN FindCycleFrom(ts, k + 1, seen)
  ELSE LET r == CycleVisit(ts, ts.nodes[k], <<>>, <<>>, seen)
       IN IF r.cycle # <<>> THEN r.cycle ELSE FindCycleFrom(ts, k + 1, r.seen)

FindCycle(ts) == FindCycleFrom(ts, 1, {})

\* a prepare that makes only the first node without predecessors ready
ReadyNodesFirstOnly(ts) ==
  LET r == SelectSeq(ts.nodes, LAMBDA n : ts.npred[n] = 0)
  IN IF r = <<>> THEN r ELSE <<r[1]>>

\* the nodes of _node2info, in insertion order, that have no predecessor left
ReadyNodes(ts) == SelectSeq(ts.nodes, LAMBDA n : ts.npred[n] = 0)

\* TopologicalSorter.done for one node: its successors lose a predecessor, and
\* those left with none are appended to _ready_nodes
RECURSIVE DoneSuccessors(_, _, _, _)
DoneSuccessors(npred, ready, succs, i) ==
  IF i > Len(succs) THEN [npred |-> npred, ready |-> ready]
  ELSE LET s == succs[i]
           np == [npred EXCEPT ![s] = @ - 1]
       IN DoneSuccessors(np, IF np[s] = 0 THEN Append(ready, s) ELSE ready, succs, i + 1)

\* TopologicalSorter.done(*nodes)
RECURSIVE DoneNodes(_, _, _, _, _)
DoneNodes(ts, npred, ready, group, i) ==
  IF i > Len(group) THEN [npred |-> npred, ready |-> ready]
  ELSE LET r == DoneSuccessors(npred, ready, ts.succ[group[i]], 1)
       IN DoneNodes(ts, r.npred, r.ready, group, i + 1)

\* the loop of TopologicalSorter.static_order: get_ready, yield, done
RECURSIVE StaticOrderLoop(_, _, _, _)
StaticOrderLoop(ts, npred, ready, out) ==
  IF ready = <<>> THEN out
  ELSE LET r == DoneNodes(ts, npred, <<>>, ready, 1)
       IN StaticOrderLoop(ts, r.npred, r.ready, out \o ready)

\* a prepare that never raises
PrepareNoCycle(ts) == <<>>

\* TopologicalSorter.prepare: the cycle it raises CycleError with, or <<>>
PrepareCycle(ts) == FindCycle(ts)

\* Publisher.create_publish_order: the publish order, or the CycleError that
\* static_order raises from prepare
create_publish_order(cs) ==
  LET ts == FillSorter(EmptySorter, cs, 1)
      cycle == PrepareCycle(ts)
  IN IF cycle # <<>>
     THEN [raised |-> TRUE, cycle |-> cycle, order |-> <<>>]
     ELSE [raised |-> FALSE, cycle |-> <<>>,
           order |-> StaticOrderLoop(ts, ts.npred, ReadyNodes(ts), <<>>)]

\* ------------------------------------------------------------ the workspace
\* manifests maps each member of the workspace (the set `members`) to its
\* Cargo.toml: the names of its local-path dependencies and its version.
CrateNames(cs) == {cs[i].name : i \in 1..Len(cs)}

RECURSIVE TotalEdges(_, _)
TotalEdges(deps, left) ==
  IF left = {} THEN 0
  ELSE LET m == CHOOSE x \in left : TRUE
       IN Cardinality(deps[m]) + TotalEdges(deps, left \ {m})

\* A manifest is a table (a dict of the parsed TOML) with the entries of its
\* "dependencies" and "dev-dependencies" tables, the table under its key
\* "target" if it has one, the tables under its keys that start with "cfg", and
\* the tables under its other keys, such as the target triples of a target
\* table.  An entry of a dependency table has its key, whether its value is a
\* table, whether that table has a "path", and its "package" if it has one.
EmptyTable ==
  [dependencies |-> {}, dev_dependencies |-> {}, target |-> <<>>, cfg |-> <<>>,
   other |-> <<>>]

\* the key of a dependency that is declared under another name than its package's
AliasKey == 0

\* n = { path = "../n" }
PathDep(n) == [key |-> n, is_table |-> TRUE, path |-> TRUE, package |-> None]
\* alias = { path = "../n", package = "n" }
RenamedPathDep(n) == [key |-> AliasKey, is_table |-> TRUE, path |-> TRUE, package |-> Some(n)]
\* n = { version = "1" }
RegistryDep(n) == [key |-> n, is_table |-> TRUE, path |-> FALSE, package |-> None]
\* n = "1"
VersionDep(n) == [key |-> n, is_table |-> FALSE, path |-> FALSE, package |-> None]

Entries(names) ==
  UNION {{PathDep(n), RenamedPathDep(n), RegistryDep(n), VersionDep(n)} : n \in names}

\* where a dependency is declared: at the top of the manifest, under
\* target.'cfg(..)', under target.<triple>, or under a target table nested in
\* a cfg table
Sections == {<<>>, <<"cfg">>, <<"triple">>, <<"cfg", "cfg">>}

\* the declarations "[<section>.dependencies] entry" and
\* "[<section>.dev-dependencies] entry"
Decls(names) ==
  [where : Sections, kind : {"dependencies", "dev-dependencies"}, entry : Entries(names)]

\* the table that tomllib.load returns for the section `where` of a manifest
\* with the declarations decls
RECURSIVE TableAt(_, _)
TableAt(decls, where) ==
  LET here(kind) == {d.entry : d \in {x \in decls : x.where = where /\ x.kind = kind}}
      below(k) == \E d \in decls :
                    /\ Len(d.where) > Len(where)
                    /\ SubSeq(d.where, 1, Len(where) + 1) = Append(where, k)
      sub(k) == IF below(k) THEN <<TableAt(decls, Append(where, k))>> ELSE <<>>
  IN [dependencies |-> here("dependencies"),
      dev_dependencies |-> here("dev-dependencies"),
      target |-> IF below("cfg") \/ below("triple")
                 THEN <<[EmptyTable EXCEPT !.cfg = sub("cfg"), !.other = sub("triple")]>>
                 ELSE <<>>,
      cfg |-> <<>>,
      other |-> <<>>]

\* the Cargo.toml of a member: its declarations and its package version
Manifest(decls, v) ==
  LET t == TableAt(decls, <<>>)
  IN [version |-> v, dependencies |-> t.dependencies,
      dev_dependencies |-> t.dev_dependencies, target |-> t.target, cfg |-> t.cfg,
      other |-> t.other]

\* a manifest whose only dependencies are the path dependencies ds
PlainManifest(ds, v) ==
  Manifest({[where |-> <<>>, kind |-> "dependencies", entry |-> PathDep(n)] : n \in ds}, v)

\* check_local_dep_fn = lambda t: isinstance(t[1], dict) and "path" in t[1]
check_local_dep_fn(t) == t.is_table /\ t.path

\* a map that keeps the key of every dependency
LocalDependencyKeys(entries) ==
  {t.key : t \in {x \in entries : check_local_dep_fn(x)}}

\* map(lambda dep: dep[1]["package"] if "package" in dep[1] else dep[0],
\*     filter(check_local_dep_fn, toml[...].items()))
LocalDependencyNames(entries) ==
  {IF t.package # None THEN t.package[1] ELSE t.key :
     t \in {x \in entries : check_local_dep_fn(x)}}

\* a traversal that leaves the dev-dependencies out
RECURSIVE CollectLoopNoDev(_, _)
CollectLoopNoDev(stack, acc) ==
  IF stack = <<>> THEN acc
  ELSE LET toml == stack[Len(stack)]
       IN CollectLoopNoDev(SubSeq(stack, 1, Len(stack) - 1) \o toml.target \o toml.cfg,
                           acc \cup LocalDependencyNames(toml.dependencies))

\* the loop "while len(stack) > 0" of return_dependencies: pop a table, add the
\* names of its dependencies and dev-dependencies to acc, push its "target"
\* table and the tables of its keys that start with "cfg"
RECURSIVE CollectLoop(_, _)
CollectLoop(stack, acc) ==
  IF stack = <<>> THEN acc
  ELSE LET toml == stack[Len(stack)]
       IN CollectLoop(SubSeq(stack, 1, Len(stack) - 1) \o toml.target \o toml.cfg,
                      acc \cup LocalDependencyNames(toml.dependencies)
                          \cup LocalDependencyNames(toml.dev_dependencies))

\* the nodes of the dependency graph
GraphNodes(mf) == DOMAIN mf \cup UNION {CollectLoop(<<mf[m]>>, {}) : m \in DOMAIN mf}

\* return_dependencies returns list(acc) of the set acc, in any order
return_dependencies(toml) == Perms(CollectLoop(<<toml>>, {}))

\* os.getcwd() when the script starts: the root of the workspace
RootDir == [crate |-> None]
\* Crate.path: os.path.dirname(os.path.join(os.getcwd(), member))
CratePath(member) == [crate |-> Some(member)]

\* Crate(dependencies, member_data, cargo_file_path=member)
Crate(dependencies, member_data, member) ==
  [name |-> member, dependencies |-> dependencies, version |-> member_data.version,
   path |-> CratePath(member)]

\* every list `crates` the loop over the set `members` can build
RECURSIVE EnumerationsOf(_, _)
EnumerationsOf(mf, left) ==
  IF left = {} THEN {<<>>}
  ELSE UNION {{<<Crate(d, mf[m], m)>> \o rest :
                 d \in return_dependencies(mf[m]), rest \in EnumerationsOf(mf, left \ {m})} :
              m \in left}

Enumerations(mf) == EnumerationsOf(mf, DOMAIN mf)

\* ------------------------------------------------------------------ state
VARIABLES
  subcommand,     \* args.subcommand
  dry_run,        \* Publisher.dry_run
  verbose,        \* args.verbose
  version_arg,    \* args.version of the publish command, None without --version
  ws_version,     \* data["workspace"]["package"]["version"] of the root manifest
  manifests,      \* the Cargo.toml of each workspace member
  crates,         \* Publisher.crates
  registry,       \* per name, the latest version cargo search shows
  pc,             \* where the process is
  version,        \* Publisher.version
  publish_order,  \* Publisher.publish_order
  exc,            \* the exception that left main, if any
  idx,            \* position of the loop of Publisher.publish in publish_order
  status,         \* the dict status of Publisher.publish
  failures,       \* the counter failures of Publisher.publish
  outcome,        \* per package: Pending, Skipped, Published or Failed
  calls,          \* the subprocess and sleep calls of this process, in order
  clock,          \* seconds slept by this process
  ret,            \* what main returned
  exit_code,      \* the exit status of the process
  registry0,      \* the registry when this process started
  prev,           \* the earlier run of the script, if this is a re-run
  stdout,         \* what the process has printed: the order, the summary
  cwd,            \* the working directory of the process
  starting_dir,   \* Publisher.starting_dir, None before it is assigned
  release_pc,     \* make-release.py: where the script is, "none" when it is not run
  already_released, \* make_release: already_released
  checks,         \* the `gh pr checks` output that ended the polling loop, if any
  polls,          \* iterations of the current waiting loop of make_release
  publishes,      \* how many times make_release has started publish.py
  err,            \* the message of the exception that left make_release
  say_codes,      \* what the calls of os.system("say ...") returned, in order
  script_exit     \* the exit status of make-release.py

vars == <<subcommand, dry_run, verbose, version_arg, ws_version, manifests, crates,
          registry, pc, version, publish_order, exc, idx, status, failures, outcome,
          calls, clock, ret, exit_code, registry0, prev, stdout, cwd, starting_dir,
          release_pc, already_released, checks, polls, publishes, err, say_codes,
          script_exit>>

\* the state of make-release.py
release == <<release_pc, already_released, checks, polls, publishes, err, say_codes,
             script_exit>>

\* the working directory and the directory the Publisher goes back to
dirs == <<cwd, starting_dir>>

\* what a run leaves alone: the arguments and the files of the workspace
args == <<subcommand, dry_run, verbose, version_arg, ws_version, manifests, registry0,
          prev, release>>

EmptyDict == [n \in {} |-> "None"]
AllPending == [n \in Names |-> "Pending"]
NoRun == [ran |-> FALSE, outcome |-> AllPending, exc |-> "None"]

\* publish.py run by hand: make-release.py is not running
NoRelease ==
  /\ release_pc = "none"
  /\ already_released = FALSE
  /\ checks = None
  /\ polls = 0
  /\ publishes = 0
  /\ err = "None"
  /\ say_codes = <<>>
  /\ script_exit = None

\* a process that has parsed its arguments and has not built its Publisher yet
Fresh ==
  /\ pc = "start"
  /\ crates = <<>>
  /\ version = None
  /\ publish_order = <<>>
  /\ exc = "None"
  /\ idx = 1
  /\ status = EmptyDict
  /\ failures = 0
  /\ outcome = AllPending
  /\ calls = <<>>
  /\ clock = 0
  /\ ret = None
  /\ exit_code = None
  /\ stdout = <<>>
  /\ cwd = RootDir
  /\ starting_dir = None

\* The workspaces over names of size at most maxSize (dependency entries, crates
\* with a version of their own, packages in the registry), at most maxExtra of
\* it other than dependency entries.  Version strings are only compared for
\* equality: the workspace version is taken to be version 1, and the other
\* versions are any other strings.
\* main: health-check builds Publisher(verbose=verbose), whose dry_run is the
\* default True; publish builds Publisher(dry_run=args.dry_run, ...)
InitWith(names, maxSize, maxExtra, modes) ==
  /\ \E m \in modes :
       subcommand = m[1] /\ dry_run = m[2] /\ verbose = m[3] /\ version_arg = m[4]
  /\ ws_version = 1
  /\ \E members \in SUBSET names \ {{}} :
       \E deps \in [members -> SUBSET names] :
         LET edges == TotalEdges(deps, members)
             extra == IF maxSize - edges < maxExtra THEN maxSize - edges ELSE maxExtra
             nodes == members \cup UNION {deps[m] : m \in members}
         IN /\ edges <= maxSize
            /\ \E own \in {T \in SUBSET members : Cardinality(T) <= extra} :
                 \E pre \in {T \in SUBSET nodes : Cardinality(T) <= extra - Cardinality(own)} :
                   /\ \E ownv \in [own -> Versions \ {ws_version}] :
                        manifests = [m \in members |->
                                       PlainManifest(deps[m],
                                         IF m \in own THEN ownv[m] ELSE ws_version)]
                   /\ \E prev_v \in [pre -> Versions] :
                        registry = [n \in Names |-> IF n \in pre THEN Some(prev_v[n]) ELSE None]
  /\ registry0 = registry
  /\ prev = NoRun
  /\ Fresh
  /\ NoRelease

\* the command lines without --version: health-check [-v], publish [--dry-run] [-v]
Modes ==
  {<<"health-check", TRUE, v, None>> : v \in BOOLEAN}
    \cup {<<"publish", d, v, None>> : d \in BOOLEAN, v \in BOOLEAN}

Init == InitWith(1..WalkNames, WalkSize, WalkSize, Modes)

\* ------------------------------------------------------- Publisher helpers
\* "crate_name in self.crate_index"
InIndex(crate_name) == crate_name \in CrateNames(crates)
\* self.crate_index[crate_name]
crate_index(crate_name) == CHOOSE c \in Range(crates) : c.name = crate_name

\* Publisher.__init__: "if version is None: version = data[...]; self.version = version"
PublisherVersion(varg, wsv) == IF varg = None THEN Some(wsv) ELSE varg

\* main, subcommand publish: "Publisher(dry_run=args.dry_run, verbose=verbose)".
\* The version parameter of Publisher is not passed and takes its default None.
MainVersionArgument(varg) == None

\* a skip check that compares with Publisher.version alone
is_crate_already_published_version_only(crate_name, found_string) ==
  IF found_string = None THEN "False"
  ELSE IF version = found_string THEN "True" ELSE "False"

\* Publisher.is_crate_already_published, given what get_latest_version_for_crate
\* returned: "True", "False", or the KeyError of self.crate_index[crate_name]
is_crate_already_published(crate_name, found_string) ==
  IF found_string = None THEN "False"
  ELSE IF version = found_string THEN "True"
  ELSE IF ~InIndex(crate_name) THEN "KeyError"
  ELSE IF Some(manifests[crate_index(crate_name).name].version) = found_string
       THEN "True" ELSE "False"

\* a publish_crate that never passes --dry-run
PublishCommandLive(dry) == FALSE

\* the cargo publish command line of Publisher.publish_crate: is it --dry-run?
PublishCommandDry(dry) == dry

\* a loop that never sleeps
NeverSleeps(dry) == FALSE

\* "if not self.dry_run: ... time.sleep(16)" after publish_crate was called
SleepsAfterPublish(dry) == ~dry

\* "if status[crate_name]: failures = +1"
CountFailure(n, st) == IF st # "None" THEN 1 ELSE n

\* "if __name__ == '__main__': main()": the value main returns is dropped; the
\* interpreter exits with 1 when an exception leaves main
ExitStatus(raised, returned) == IF raised THEN 1 ELSE 0

\* SETTINGS["publish_features"]: the names with an odd number have an entry,
\* each its own feature string
publish_features == [n \in {k \in Names : k % 2 = 1} |-> n]

\* a publish_crate that passes the features of the first entry for every crate
extra_args_of_first_entry(crate_name) == Some(publish_features[1])

\* Publisher.publish_crate: extra_args, None for the empty list
extra_args(crate_name) ==
  IF crate_name \in DOMAIN publish_features
  THEN Some(publish_features[crate_name]) ELSE None

\* a subprocess.run or time.sleep call; features is the --features argument of
\* a cargo publish, from the working directory when the step began (the version
\* query, publish_crate, the sleep), cwd the one the call was made in
Call(op, crate, dry, ok) ==
  [op |-> op, crate |-> crate, dry |-> dry, ok |-> ok, at |-> clock, features |-> None,
   from |-> cwd, cwd |-> cwd]

\* pprint(publish_order)
OrderLine(order) == [kind |-> "order", order |-> order]
\* "encountered {failures} failures." and one line "{key}\t{result}" per entry
\* of status
SummaryLines(n, st) == [kind |-> "summary", failures |-> n, status |-> st]
\* "Published {len(status) - failures} crates."
PublishedLine(n, st) == [kind |-> "published", count |-> Cardinality(DOMAIN st) - n]

\* main, subcommand health-check: "if verbose: ... pprint(publisher.publish_order)"
HealthCheckOutput(v, out, order) == IF v THEN Append(out, OrderLine(order)) ELSE out

\* Publisher.publish: "if self.verbose: print('Publishing order:'); pprint(...)"
PublishOrderOutput(v, out, order) == IF v THEN Append(out, OrderLine(order)) ELSE out

\* the end of Publisher.publish: the summary "if failures > 0 and self.verbose",
\* the count of published crates "if self.verbose"
PublishEndOutput(v, out, n, st) ==
  LET o1 == IF n > 0 /\ v THEN Append(out, SummaryLines(n, st)) ELSE out
  IN IF v THEN Append(o1, PublishedLine(n, st)) ELSE o1

\* ---------------------------------------------------------------- actions
\* Publisher.__init__, one turn of "for member in members": the set is iterated
\* in any order
LoadMember ==
  /\ pc = "start"
  /\ \E member \in DOMAIN manifests \ CrateNames(crates) :
       \E dependencies \in return_dependencies(manifests[member]) :
         crates' = Append(crates, Crate(dependencies, manifests[member], member))
  /\ UNCHANGED <<args, dirs, registry, pc, version, publish_order, exc, idx, status, failures,
                 outcome, calls, clock, ret, exit_code, stdout>>

\* Publisher.__init__ after the loop: self.version, crate_index,
\* create_publish_order and, when it did not raise, self.starting_dir
Construct ==
  /\ pc = "start"
  /\ CrateNames(crates) = DOMAIN manifests
  /\ version' = PublisherVersion(MainVersionArgument(version_arg), ws_version)
  /\ LET r == create_publish_order(crates)
     IN IF r.raised
        THEN /\ pc' = "raised"
             /\ exc' = "CycleError"
             /\ publish_order' = publish_order
        ELSE /\ pc' = "constructed"
             /\ exc' = exc
             /\ publish_order' = r.order
  /\ starting_dir' = IF create_publish_order(crates).raised THEN starting_dir ELSE Some(cwd)
  /\ UNCHANGED <<args, cwd, crates, registry, idx, status, failures, outcome, calls, clock, ret,
                 exit_code, stdout>>

\* a health check that goes on to walk the order
HealthCheckWalks ==
  /\ pc = "constructed"
  /\ subcommand = "health-check"
  /\ stdout' = HealthCheckOutput(verbose, stdout, publish_order)
  /\ pc' = "loop"
  /\ UNCHANGED <<args, dirs, crates, registry, version, publish_order, exc, idx, status,
                 failures, outcome, calls, clock, ret, exit_code>>

\* main, subcommand health-check: print the order, return 0
HealthCheck ==
  /\ pc = "constructed"
  /\ subcommand = "health-check"
  /\ stdout' = HealthCheckOutput(verbose, stdout, publish_order)
  /\ ret' = Some(0)
  /\ pc' = "returned"
  /\ UNCHANGED <<args, dirs, crates, registry, version, publish_order, exc, idx, status,
                 failures, outcome, calls, clock, exit_code>>

\* Publisher.publish up to its loop: status = {}, failures = 0
PublishBegin ==
  /\ pc = "constructed"
  /\ subcommand = "publish"
  /\ status' = EmptyDict
  /\ failures' = 0
  /\ idx' = 1
  /\ pc' = "loop"
  /\ stdout' = PublishOrderOutput(verbose, stdout, publish_order)
  /\ UNCHANGED <<args, dirs, crates, registry, version, publish_order, exc, outcome, calls,
                 clock, ret, exit_code>>

\* a skip check after which a live run sleeps although the crate is skipped
SkipCheckThenSleeps ==
  /\ pc = "loop"
  /\ idx <= Len(publish_order)
  /\ LET crate_name == publish_order[idx]
     IN /\ calls' = Append(calls, Call("search", crate_name, FALSE, TRUE))
        /\ LET r == is_crate_already_published(crate_name, registry[crate_name])
           IN CASE r = "True" ->
                     /\ outcome' = [outcome EXCEPT ![crate_name] = "Skipped"]
                     /\ IF dry_run THEN pc' = "loop" /\ idx' = idx + 1
                                   ELSE pc' = "sleep" /\ idx' = idx
                     /\ exc' = exc
                [] r = "False" ->
                     /\ pc' = "publish_crate"
                     /\ UNCHANGED <<idx, outcome, exc>>
                [] OTHER ->
                     /\ pc' = "raised"
                     /\ exc' = r
                     /\ UNCHANGED <<idx, outcome>>
  /\ UNCHANGED <<args, dirs, crates, registry, version, publish_order, status, failures, clock,
                 ret, exit_code, stdout>>

\* the loop of Publisher.publish: the skip check of the next crate.  cargo search
\* may exit nonzero (subprocess.run(check=True) raises CalledProcessError)
SkipCheck ==
  /\ pc = "loop"
  /\ idx <= Len(publish_order)
  /\ LET crate_name == publish_order[idx]
     IN \/ /\ calls' = Append(calls, Call("search", crate_name, FALSE, FALSE))
           /\ pc' = "raised"
           /\ exc' = "CalledProcessError"
           /\ UNCHANGED <<idx, outcome>>
        \/ /\ calls' = Append(calls, Call("search", crate_name, FALSE, TRUE))
           /\ LET r == is_crate_already_published(crate_name, registry[crate_name])
              IN CASE r = "True" ->
                        /\ outcome' = [outcome EXCEPT ![crate_name] = "Skipped"]
                        /\ idx' = idx + 1
                        /\ pc' = "loop"
                        /\ exc' = exc
                   [] r = "False" ->
                        /\ pc' = "publish_crate"
                        /\ UNCHANGED <<idx, outcome, exc>>
                   [] OTHER ->
                        /\ pc' = "raised"
                        /\ exc' = r
                        /\ UNCHANGED <<idx, outcome>>
  /\ UNCHANGED <<args, dirs, crates, registry, version, publish_order, status, failures, clock,
                 ret, exit_code, stdout>>

\* a loop body that leaves the loop when publish_crate returned an exception
BreakOnFailure(crate_name, st) ==
  /\ status' = [n \in DOMAIN status \cup {crate_name} |->
                  IF n = crate_name THEN st ELSE status[n]]
  /\ failures' = CountFailure(failures, st)
  /\ outcome' = [outcome EXCEPT ![crate_name] = IF st = "None" THEN "Published" ELSE "Failed"]
  /\ IF st # "None"
     THEN pc' = "loop" /\ idx' = Len(publish_order) + 1
     ELSE IF SleepsAfterPublish(dry_run)
          THEN pc' = "sleep" /\ idx' = idx
          ELSE pc' = "loop" /\ idx' = idx + 1

\* a loop body that stays at the crate whose publish_crate returned an exception
RetryOnFailure(crate_name, st) ==
  /\ status' = [n \in DOMAIN status \cup {crate_name} |->
                  IF n = crate_name THEN st ELSE status[n]]
  /\ failures' = CountFailure(failures, st)
  /\ outcome' = [outcome EXCEPT ![crate_name] = IF st = "None" THEN "Published" ELSE "Failed"]
  /\ IF st # "None"
     THEN pc' = "loop" /\ idx' = idx
     ELSE IF SleepsAfterPublish(dry_run)
          THEN pc' = "sleep" /\ idx' = idx
          ELSE pc' = "loop" /\ idx' = idx + 1

\* what follows publish_crate in the loop body: the status, the failure count,
\* and the sleep or the next iteration
AfterPublishCrate(crate_name, st) ==
  /\ status' = [n \in DOMAIN status \cup {crate_name} |->
                  IF n = crate_name THEN st ELSE status[n]]
  /\ failures' = CountFailure(failures, st)
  /\ outcome' = [outcome EXCEPT ![crate_name] = IF st = "None" THEN "Published" ELSE "Failed"]
  /\ IF SleepsAfterPublish(dry_run)
     THEN pc' = "sleep" /\ idx' = idx
     ELSE pc' = "loop" /\ idx' = idx + 1

\* a publish_crate without its finally clause
NoFinally(dir_now) == dir_now

\* Publisher.publish_crate, "finally: os.chdir(self.starting_dir)": the working
\* directory after it, given the one the try block left
FinallyChdir(dir_now) == starting_dir[1]

\* Publisher.publish_crate and the rest of the loop body.  A name that is not in
\* crate_index raises KeyError inside the try, before os.chdir(crate.path); cargo
\* publish runs in crate.path and succeeds or fails.
PublishCrate ==
  /\ pc = "publish_crate"
  /\ LET crate_name == publish_order[idx]
     IN IF ~InIndex(crate_name)
        THEN /\ AfterPublishCrate(crate_name, "KeyError")
             /\ cwd' = FinallyChdir(cwd)
             /\ UNCHANGED <<calls, registry>>
        ELSE \E ok \in BOOLEAN :
               /\ calls' = Append(calls,
                                  [Call("publish", crate_name, PublishCommandDry(dry_run), ok)
                                     EXCEPT !.features = extra_args(crate_name),
                                            !.cwd = crate_index(crate_name).path])
               /\ cwd' = FinallyChdir(crate_index(crate_name).path)
               /\ registry' = IF ok /\ ~PublishCommandDry(dry_run)
                              THEN [registry EXCEPT
                                      ![crate_name] = Some(manifests[crate_name].version)]
                              ELSE registry
               /\ AfterPublishCrate(crate_name, IF ok THEN "None" ELSE "CalledProcessError")
  /\ UNCHANGED <<args, starting_dir, crates, version, publish_order, exc, clock, ret,
                 exit_code, stdout>>

\* a sleep after which the loop starts over from the first crate of the order
SleepAndRestart ==
  /\ pc = "sleep"
  /\ calls' = Append(calls, Call("sleep", publish_order[idx], FALSE, TRUE))
  /\ clock' = clock + SleepSeconds
  /\ idx' = 1
  /\ pc' = "loop"
  /\ UNCHANGED <<args, dirs, crates, registry, version, publish_order, exc, status, failures,
                 outcome, ret, exit_code, stdout>>

\* time.sleep(16), then the next iteration
Sleep ==
  /\ pc = "sleep"
  /\ calls' = Append(calls, Call("sleep", publish_order[idx], FALSE, TRUE))
  /\ clock' = clock + SleepSeconds
  /\ idx' = idx + 1
  /\ pc' = "loop"
  /\ UNCHANGED <<args, dirs, crates, registry, version, publish_order, exc, status, failures,
                 outcome, ret, exit_code, stdout>>

\* the end of Publisher.publish: "return failures", which main returns
PublishReturn ==
  /\ pc = "loop"
  /\ idx > Len(publish_order)
  /\ stdout' = PublishEndOutput(verbose, stdout, failures, status)
  /\ ret' = Some(failures)
  /\ pc' = "returned"
  /\ UNCHANGED <<args, dirs, crates, registry, version, publish_order, exc, idx, status,
                 failures, outcome, calls, clock, exit_code>>

\* the process ends
Exit ==
  /\ pc \in {"returned", "raised"}
  /\ exit_code' = Some(ExitStatus(pc = "raised", ret))
  /\ pc' = "exited"
  /\ UNCHANGED <<args, dirs, crates, registry, version, publish_order, exc, idx, status,
                 failures, outcome, calls, clock, ret, stdout>>

\* The script is run again over the same workspace after a live publish run that
\* reached the walk.
Rerun ==
  /\ pc = "exited"
  /\ ~prev.ran
  /\ subcommand = "publish"
  /\ ~dry_run
  /\ exc # "CycleError"
  /\ prev' = [ran |-> TRUE, outcome |-> outcome, exc |-> exc]
  /\ dry_run' \in BOOLEAN
  /\ registry0' = registry
  /\ pc' = "start"
  /\ crates' = <<>>
  /\ version' = None
  /\ publish_order' = <<>>
  /\ exc' = "None"
  /\ idx' = 1
  /\ status' = EmptyDict
  /\ failures' = 0
  /\ outcome' = AllPending
  /\ calls' = <<>>
  /\ clock' = 0
  /\ ret' = None
  /\ exit_code' = None
  /\ stdout' = <<>>
  /\ cwd' = RootDir
  /\ starting_dir' = None
  /\ UNCHANGED <<subcommand, verbose, version_arg, ws_version, manifests, registry, release>>

\* one run of the script
Next ==
  \/ LoadMember
  \/ Construct
  \/ HealthCheck
  \/ PublishBegin
  \/ SkipCheck
  \/ PublishCrate
  \/ Sleep
  \/ PublishReturn
  \/ Exit

Spec == Init /\ [][Next]_vars

\* a live publish run and a second run of the script after it
InitRerun == InitWith(1..RerunNames, RerunSize, RerunSize, {<<"publish", FALSE, TRUE, None>>})

NextRerun ==
  \/ LoadMember
  \/ Construct
  \/ PublishBegin
  \/ SkipCheck
  \/ PublishCrate
  \/ Sleep
  \/ PublishReturn
  \/ Exit
  \/ Rerun

SpecRerun == InitRerun /\ [][NextRerun]_vars

\* the same over the workspaces of three packages: one published, one failed,
\* one skipped
InitResume == InitWith(1..ResumeNames, ResumeSize, ResumeSize, {<<"publish", FALSE, TRUE, None>>})

SpecResume == InitResume /\ [][NextRerun]_vars

\* one run of the publish command with every combination of --dry-run, -v and
\* --version
CliModes ==
  {<<"publish", d, v, a>> :
     d \in BOOLEAN, v \in BOOLEAN, a \in {None} \cup {Some(x) : x \in Versions}}

InitCli == InitWith(1..CliNames, CliSize, CliSize, CliModes)

NextCli ==
  \/ LoadMember
  \/ Construct
  \/ PublishBegin
  \/ SkipCheck
  \/ PublishCrate
  \/ Sleep
  \/ PublishReturn
  \/ Exit

SpecCli == InitCli /\ [][NextCli]_vars

\* ------------------------------------------------------ order computation
\* create_publish_order as a function of the workspace: the health check of
\* every workspace over Names with at most MaxEdges dependency entries, all
\* crates at the workspace version and nothing in the registry
InitOrder == InitWith(Names, MaxEdges, 0, {<<"health-check", TRUE, TRUE, None>>})

NextOrder ==
  \/ LoadMember
  \/ Construct
  \/ HealthCheck
  \/ Exit

SpecOrder == InitOrder /\ [][NextOrder]_vars

\* The health check of the workspaces over 1..TomlNames, all of them members at
\* the workspace version, with at most TomlDecls plain path dependencies in
\* all; the first member has, besides, no or one declaration of any form in
\* any section.
InitManifest ==
  /\ subcommand = "health-check"
  /\ dry_run = TRUE
  /\ verbose = TRUE
  /\ version_arg = None
  /\ ws_version = 1
  /\ \E special \in {{}} \cup {{d} : d \in Decls(1..TomlNames)} :
       \E deps \in [1..TomlNames -> SUBSET (1..TomlNames)] :
         /\ TotalEdges(deps, 1..TomlNames) <= TomlDecls
         /\ manifests =
              [m \in 1..TomlNames |->
                 Manifest({[where |-> <<>>, kind |-> "dependencies", entry |-> PathDep(n)] :
                             n \in deps[m]}
                            \cup (IF m = 1 THEN special ELSE {}),
                          ws_version)]
  /\ registry = [n \in Names |-> None]
  /\ registry0 = registry
  /\ prev = NoRun
  /\ Fresh
  /\ NoRelease

SpecManifest == InitManifest /\ [][NextOrder]_vars

\* --------------------------------------------------------- make-release.py
\* A line of the output of `gh pr checks`, as far as make_release looks at it:
\* what it starts with, and which of the words it contains.
CheckLines ==
  [start : {"*", "X", "other"}, no_checks_reported : BOOLEAN, pending : BOOLEAN,
   fail : BOOLEAN, bors : BOOLEAN]

RECURSIVE SeqsUpTo(_, _)
SeqsUpTo(S, n) ==
  IF n = 0 THEN {<<>>}
  ELSE LET shorter == SeqsUpTo(S, n - 1)
       IN shorter \cup {Append(q, x) : q \in {r \in shorter : Len(r) = n - 1}, x \in S}

\* the outputs of one `gh pr checks`: its lines and whether it exited with 0
ChecksOutputs == [lines : SeqsUpTo(CheckLines, MaxLines), returncode_zero : BOOLEAN]

\* a loop over the lines that does not look for "pending"
RECURSIVE ReadCheckLinesIgnoringPending(_, _, _)
ReadCheckLinesIgnoringPending(lines, all_checks_have_passed, bors_failed) ==
  IF lines = <<>>
  THEN [raised |-> FALSE, all_checks_have_passed |-> all_checks_have_passed,
        bors_failed |-> bors_failed]
  ELSE LET line == Head(lines)
           passed == all_checks_have_passed /\ ~line.no_checks_reported /\ line.start # "*"
           bors == bors_failed \/ (line.fail /\ line.bors)
       IN IF line.start = "X" \/ (line.fail /\ ~line.bors)
          THEN [raised |-> TRUE, all_checks_have_passed |-> passed, bors_failed |-> bors_failed]
          ELSE ReadCheckLinesIgnoringPending(Tail(lines), passed, bors)

\* make_release, "for line in proc.stdout" of the polling loop: the flags after
\* the lines, or raised when a line made it raise Exception("check failed")
RECURSIVE ReadCheckLines(_, _, _)
ReadCheckLines(lines, all_checks_have_passed, bors_failed) ==
  IF lines = <<>>
  THEN [raised |-> FALSE, all_checks_have_passed |-> all_checks_have_passed,
        bors_failed |-> bors_failed]
  ELSE LET line == Head(lines)
           passed == /\ all_checks_have_passed
                     /\ ~line.no_checks_reported
                     /\ line.start # "*"
                     /\ ~(line.pending /\ ~line.bors)
       IN IF line.start = "X"
          THEN [raised |-> TRUE, all_checks_have_passed |-> passed, bors_failed |-> bors_failed]
          ELSE LET bors == \/ bors_failed
                           \/ line.fail /\ line.bors
                           \/ line.pending /\ line.bors
               IN IF line.fail /\ ~line.bors
                  THEN [raised |-> TRUE, all_checks_have_passed |-> passed,
                        bors_failed |-> bors]
                  ELSE ReadCheckLines(Tail(lines), passed, bors)

\* "raise Exception(message)" in make_release
Raise(message) ==
  /\ release_pc' = "raised"
  /\ err' = message

\* what a step of make_release leaves alone: publish.py is not run by hand
publisher == <<subcommand, dry_run, verbose, version_arg, ws_version, manifests, crates,
               registry, pc, version, publish_order, exc, idx, status, failures, outcome,
               calls, clock, ret, exit_code, registry0, prev, stdout, cwd, starting_dir>>

\* the top of the script: without a version argument, git or gh it exits with 1,
\* else it calls make_release
ScriptStart ==
  /\ release_pc = "top"
  /\ \/ /\ release_pc' = "exited"
        /\ script_exit' = Some(1)
     \/ /\ release_pc' = "make_release"
        /\ script_exit' = script_exit
  /\ UNCHANGED <<publisher, already_released, checks, polls, publishes, err, say_codes>>

\* make_release up to the polling loop: log in, clone, changelog, whether the
\* version is in the merged pull requests, the release branch and its pull
\* request
Prepare ==
  /\ release_pc = "make_release"
  /\ \/ /\ \E m \in {"please log in", "could not clone github repo"} : Raise(m)
        /\ UNCHANGED already_released
     \/ \E released \in BOOLEAN, github_link_line \in BOOLEAN :
          /\ already_released' = released
          /\ \/ /\ ~github_link_line /\ ~released
                /\ \E m \in {"could not run git checkout -b release",
                             "could not commit CHANGELOG"} : Raise(m)
             \/ /\ release_pc' = "checks"
                /\ err' = err
  /\ UNCHANGED <<publisher, checks, polls, publishes, say_codes, script_exit>>

\* one turn of "while not(already_released)": gh pr checks, the lines of its
\* output, then break, raise, or sleep 30 seconds and poll again
PollChecks ==
  /\ release_pc = "checks"
  /\ ~already_released
  /\ polls < MaxPolls
  /\ \E out \in ChecksOutputs :
       LET r == ReadCheckLines(out.lines, TRUE, FALSE)
       IN IF r.raised
          THEN /\ Raise("check failed")
               /\ checks' = Some(out)
               /\ polls' = polls
          ELSE IF r.all_checks_have_passed
          THEN /\ checks' = Some(out)
               /\ polls' = 0
               /\ IF ~out.returncode_zero /\ ~r.bors_failed
                  THEN Raise("failed to list checks with: gh pr checks")
                  ELSE release_pc' = "publish" /\ err' = err
          ELSE /\ checks' = None
               /\ polls' = polls + 1
               /\ UNCHANGED <<release_pc, err>>
  /\ UNCHANGED <<publisher, already_released, publishes, say_codes, script_exit>>

\* the polling loop is over, or was never entered
AfterChecks == release_pc = "publish" \/ (release_pc = "checks" /\ already_released)

\* "if not(already_released)": comment on the pull request, run publish.py publish
\* and wait for it; a nonzero exit status raises
PublishStep ==
  /\ AfterChecks
  /\ IF ~already_released
     THEN /\ publishes' = publishes + 1
          /\ \E returncode_zero \in BOOLEAN :
               IF returncode_zero
               THEN release_pc' = "git_log" /\ err' = err
               ELSE Raise("Failed to publish to crates.io")
     ELSE /\ publishes' = publishes
          /\ release_pc' = "git_log"
          /\ err' = err
  /\ UNCHANGED <<publisher, already_released, checks, polls, say_codes, script_exit>>

\* git log, git checkout master, and the comment "bors r+"
GitLog ==
  /\ release_pc = "git_log"
  /\ \/ \E m \in {"could not git log branch", "could not get last info",
                  "could not commit checkout master"} : Raise(m)
     \/ /\ release_pc' = "merge_wait"
        /\ err' = err
  /\ UNCHANGED <<publisher, already_released, checks, polls, publishes, say_codes,
                 script_exit>>

\* one turn of the loop that waits for bors to merge the pull request
MergeWait ==
  /\ release_pc = "merge_wait"
  /\ ~already_released
  /\ polls < MaxPolls
  /\ \/ /\ \E m \in {"could not pull origin", "could not git log master",
                     "could not get current info"} : Raise(m)
        /\ polls' = polls
     \/ /\ release_pc' = "tag"
        /\ polls' = 0
        /\ err' = err
     \/ /\ polls' = polls + 1
        /\ UNCHANGED <<release_pc, err>>
  /\ UNCHANGED <<publisher, already_released, checks, publishes, say_codes, script_exit>>

\* the merge commit is looked up and tagged, the tag pushed, the build workflow
\* started
Tag ==
  /\ release_pc = "tag" \/ (release_pc = "merge_wait" /\ already_released)
  /\ \/ \E m \in {"could not git log branch", "could not get last info"} : Raise(m)
     \/ /\ release_pc' = "release_wait"
        /\ err' = err
  /\ UNCHANGED <<publisher, already_released, checks, polls, publishes, say_codes,
                 script_exit>>

\* one turn of the loop that waits for the release to appear
ReleaseWait ==
  /\ release_pc = "release_wait"
  /\ polls < MaxPolls
  /\ \/ /\ Raise("release workflow failed")
        /\ polls' = polls
     \/ /\ release_pc' = "release_edit"
        /\ polls' = 0
        /\ err' = err
     \/ /\ polls' = polls + 1
        /\ UNCHANGED <<release_pc, err>>
  /\ UNCHANGED <<publisher, already_released, checks, publishes, say_codes, script_exit>>

\* a make_release whose last statement is a return
ReleaseEditReturns ==
  /\ release_pc = "release_edit"
  /\ release_pc' = "returned"
  /\ UNCHANGED <<publisher, already_released, checks, polls, publishes, err, say_codes,
                 script_exit>>

\* gh release edit, then "raise Exception('script done and merged')"
ReleaseEdit ==
  /\ release_pc = "release_edit"
  /\ Raise("script done and merged")
  /\ UNCHANGED <<publisher, already_released, checks, polls, publishes, say_codes,
                 script_exit>>

\* "except Exception as err: while True": print the message, call say, and
\* sys.exit() when say returned nonzero
SayLoop ==
  /\ release_pc = "raised"
  /\ Len(say_codes) < MaxSays
  /\ \E code \in {0, 1} :
       /\ say_codes' = Append(say_codes, code)
       /\ IF code # 0
          THEN release_pc' = "exited" /\ script_exit' = Some(0)
          ELSE UNCHANGED <<release_pc, script_exit>>
  /\ UNCHANGED <<publisher, already_released, checks, polls, publishes, err>>

\* make-release.py is started; publish.py is run by it only
InitRelease ==
  /\ subcommand = "publish"
  /\ dry_run = FALSE
  /\ verbose = FALSE
  /\ version_arg = None
  /\ ws_version = 1
  /\ manifests = <<>>
  /\ registry = [n \in Names |-> None]
  /\ registry0 = registry
  /\ prev = NoRun
  /\ Fresh
  /\ release_pc = "top"
  /\ already_released = FALSE
  /\ checks = None
  /\ polls = 0
  /\ publishes = 0
  /\ err = "None"
  /\ say_codes = <<>>
  /\ script_exit = None

NextRelease ==
  \/ ScriptStart
  \/ Prepare
  \/ PollChecks
  \/ PublishStep
  \/ GitLog
  \/ MergeWait
  \/ Tag
  \/ ReleaseWait
  \/ ReleaseEdit
  \/ SayLoop

SpecRelease == InitRelease /\ [][NextRelease]_vars

\* ------------------------------------------------------------- the claims
\* the local dependencies of a name: those of its manifest, none for a name
\* that is no member
DependenciesOf(n) ==
  IF n \in DOMAIN manifests THEN CollectLoop(<<manifests[n]>>, {}) ELSE {}

RECURSIVE ReachableFrom(_)
ReachableFrom(S) ==
  LET T == S \cup UNION {DependenciesOf(n) : n \in S}
  IN IF T = S THEN S ELSE ReachableFrom(T)

\* the dependency relation has a cycle: some member depends on itself, directly
\* or through other packages
Cyclic == \E n \in DOMAIN manifests : n \in ReachableFrom(DependenciesOf(n))

\* Publisher.__init__ has run to its end or to its exception
Built == version # None
\* ... and to its end
Constructed == Built /\ exc # "CycleError"

\* b occurs in the order, a occurs in it, and every b comes before every a
Precedes(b, a, order) ==
  /\ b \in Range(order)
  /\ a \in Range(order)
  /\ \A i, j \in 1..Len(order) : order[i] = b /\ order[j] = a => i < j

Terminal == {"Skipped", "Published", "Failed"}

\* C1: once the Publisher of an acyclic workspace is built, its publish order
\* places every dependency B of every package A before A.
C1_OrderValidity ==
  (Built /\ ~Cyclic) =>
    \A a \in DOMAIN manifests : \A b \in DependenciesOf(a) :
      Precedes(b, a, publish_order)

C1_Witness ==
  /\ Built
  /\ ~Cyclic
  /\ Len(publish_order) = 3
  /\ \E a \in DOMAIN manifests : Cardinality(manifests[a].dependencies) = 2

\* C2: when the dependency relation has a cycle, building the Publisher ends
\* with CycleError; no order exists, and no cargo search, cargo publish or sleep
\* is ever made.
C2_CycleAbortsBeforeRegistry ==
  Cyclic =>
    /\ calls = <<>>
    /\ clock = 0
    /\ publish_order = <<>>
    /\ registry = registry0
    /\ outcome = AllPending
    /\ Built => exc = "CycleError" /\ pc \in {"raised", "exited"}

C2_Witness ==
  /\ Cyclic
  /\ subcommand = "publish"
  /\ ~dry_run
  /\ pc = "exited"
  /\ Cardinality(DOMAIN manifests) = 2
  /\ \E n \in DOMAIN manifests : manifests[n].dependencies = {}

\* the packages of the order whose skip check has been answered in this run
Checked == {calls[k].crate : k \in {j \in 1..Len(calls) : calls[j].op = "search" /\ calls[j].ok}}
\* the packages cargo publish has been called for in this run
PublishCalled == {calls[k].crate : k \in {j \in 1..Len(calls) : calls[j].op = "publish"}}
\* every node of the graph is a member of the workspace
AllMembers == GraphNodes(manifests) = DOMAIN manifests

\* C3 (as claimed): a package whose skip check was answered is skipped if and
\* only if the registry's latest version equals its own manifest version.
C3_SkipIffOwnVersion ==
  \A n \in Checked \cap DOMAIN manifests :
    (outcome[n] = "Skipped") <=> (registry0[n] = Some(manifests[n].version))

\* C4: a failed publish call does not stop the walk.  The walk never goes past a
\* package it has not brought to a terminal state, a package Failed is never
\* the reason the run ends (an exception leaves the walk only from a skip check,
\* with that package still Pending), and when Publisher.publish returns every
\* package of the order is Skipped, Published or Failed.
C4_FailureDoesNotStopWalk ==
  (subcommand = "publish" /\ Constructed) =>
    /\ \A i \in 1..Len(publish_order) : i < idx => outcome[publish_order[i]] \in Terminal
    /\ pc \in {"returned", "exited"} /\ exc = "None" =>
         \A n \in Range(publish_order) : outcome[n] \in Terminal
    /\ exc # "None" =>
         /\ idx <= Len(publish_order)
         /\ outcome[publish_order[idx]] = "Pending"
         /\ calls[Len(calls)].op = "search"
         /\ calls[Len(calls)].crate = publish_order[idx]

C4_Witness ==
  /\ pc = "returned"
  /\ Len(publish_order) = 2
  /\ outcome[publish_order[1]] = "Failed"
  /\ outcome[publish_order[2]] = "Published"

\* C5 (as claimed): a publish run that ends without an exception other than the
\* cycle error exits with 0 exactly when no package Failed and the order was
\* computed.
C5_ExitCodeReportsFailure ==
  (pc = "exited" /\ subcommand = "publish" /\ exc \in {"None", "CycleError"}) =>
    ((exit_code = Some(0)) <=>
       (exc = "None" /\ \A n \in Names : outcome[n] # "Failed"))

\* the earlier run was live, returned, and left every package Published or Skipped
PrevFullySucceeded ==
  /\ prev.ran
  /\ prev.exc = "None"
  /\ \A n \in GraphNodes(manifests) : prev.outcome[n] \in {"Published", "Skipped"}

\* C6: after a live run that left every package Published or Skipped, a second
\* run makes no publish call and takes every package it checks (the registry
\* answering its search) from Pending to Skipped: all of them when it returns.
C6_IdempotentRerun ==
  PrevFullySucceeded =>
    /\ PublishCalled = {}
    /\ pc \notin {"publish_crate", "sleep"}
    /\ \A n \in Names : outcome[n] \in {"Pending", "Skipped"}
    /\ \A n \in Checked : outcome[n] = "Skipped"
    /\ exc \in {"None", "CalledProcessError"}
    /\ pc \in {"returned", "exited"} /\ exc = "None" =>
         \A n \in GraphNodes(manifests) : outcome[n] = "Skipped"

C6_Witness ==
  /\ PrevFullySucceeded
  /\ pc = "returned"
  /\ Len(publish_order) = 2
  /\ prev.outcome[publish_order[1]] = "Published"
  /\ prev.outcome[publish_order[2]] = "Skipped"
  /\ outcome[publish_order[1]] = "Skipped"
  /\ outcome[publish_order[2]] = "Skipped"

\* C7 (as claimed): when a re-run returns after a live run that published some
\* packages and failed on others (all of them workspace members), it has called
\* cargo publish for exactly the packages the registry did not show at their own
\* manifest version, and has skipped every package the earlier run published.
C7_ResumeRetriesExactlyUnpublished ==
  ( /\ prev.ran
    /\ AllMembers
    /\ \E n \in Names : prev.outcome[n] = "Published"
    /\ \E n \in Names : prev.outcome[n] = "Failed"
    /\ pc = "returned" ) =>
    /\ PublishCalled =
         {n \in DOMAIN manifests : registry0[n] # Some(manifests[n].version)}
    /\ \A n \in Names : prev.outcome[n] = "Published" => outcome[n] = "Skipped"

\* C8: in a dry run every cargo publish carries --dry-run, nothing sleeps, and
\* the registry stays what it was when the run started.
C8_DryRunMutatesNothing ==
  dry_run =>
    /\ registry = registry0
    /\ clock = 0
    /\ pc # "sleep"
    /\ \A k \in 1..Len(calls) :
         /\ calls[k].op # "sleep"
         /\ calls[k].op = "publish" => calls[k].dry

C8_Witness ==
  /\ dry_run
  /\ pc = "returned"
  /\ \E k \in 1..Len(calls) : calls[k].op = "publish" /\ calls[k].ok
  /\ \E k \in 1..Len(calls) : calls[k].op = "publish" /\ ~calls[k].ok

\* C9: in a live run, between a cargo publish that succeeded and any later
\* cargo search or cargo publish there is a sleep, so the later call is made at
\* least SleepSeconds after the publish.
C9_DelayAfterPublish ==
  ~dry_run =>
    \A i, j \in 1..Len(calls) :
      ( /\ i < j
        /\ calls[i].op = "publish"
        /\ calls[i].ok
        /\ calls[j].op \in {"search", "publish"} ) =>
        /\ calls[j].at >= calls[i].at + SleepSeconds
        /\ \E k \in (i + 1)..(j - 1) : calls[k].op = "sleep"

C9_Witness ==
  /\ ~dry_run
  /\ \E i, j \in 1..Len(calls) :
       /\ i < j
       /\ calls[i].op = "publish"
       /\ calls[i].ok
       /\ calls[j].op = "search"
       /\ calls[j].crate # calls[i].crate

\* C10 (as claimed): the publish order is the same in whatever order the
\* members and their dependencies are enumerated.
C10_OrderIndependentOfEnumeration ==
  (Constructed /\ AllMembers) =>
    \A e \in Enumerations(manifests) : create_publish_order(e).order = publish_order

\* the smallest element of a nonempty set of names
MinName(S) == CHOOSE x \in S : \A y \in S : x <= y

\* the order that places, again and again, the smallest name among the nodes
\* all of whose dependencies are placed
RECURSIVE SmallestReadyFirst(_, _)
SmallestReadyFirst(left, out) ==
  LET ready == {n \in left : DependenciesOf(n) \cap left = {}}
  IN IF ready = {} THEN out
     ELSE SmallestReadyFirst(left \ {MinName(ready)}, Append(out, MinName(ready)))

\* C11 (as claimed): the publish order of an acyclic workspace places, at every
\* position, the smallest name among the packages that are ready there.
C11_SmallestNameFirst ==
  (Constructed /\ AllMembers) =>
    publish_order = SmallestReadyFirst(GraphNodes(manifests), <<>>)

\* C12: the publish order of a Publisher that was built holds every node of the
\* graph (every member and every name a member depends on) exactly once.
C12_OrderIsPermutationOfNodes ==
  Constructed =>
    /\ Range(publish_order) = GraphNodes(manifests)
    /\ Len(publish_order) = Cardinality(GraphNodes(manifests))

C12_Witness ==
  /\ Constructed
  /\ Len(publish_order) = 3
  /\ Cardinality(DOMAIN manifests) = 2
  /\ \E a \in DOMAIN manifests : Cardinality(manifests[a].dependencies) = 2

\* the names that lie on a dependency cycle
OnCycle == {n \in DOMAIN manifests : n \in ReachableFrom(DependenciesOf(n))}
\* the names the CycleError of this run carries (its second argument)
CycleErrorNames == Range(create_publish_order(crates).cycle)

\* C13 (as claimed): the CycleError names exactly the packages that lie on a
\* dependency cycle.
C13_CycleErrorNamesAllCycles ==
  exc = "CycleError" => CycleErrorNames = OnCycle

\* C19 (as claimed): every name of the publish order is a key of crate_index.
C19_OrderWithinCrateIndex ==
  Constructed => Range(publish_order) \subseteq CrateNames(crates)

\* C14 (as claimed): once the order is computed no exception leaves
\* Publisher.publish: a walk that has begun goes on or returns.
C14_NoExceptionEscapesWalk ==
  Constructed => (exc = "None" /\ pc # "raised")

\* the packages whose publish_crate returned an exception in this run
FailedPackages == {n \in Names : outcome[n] = "Failed"}

\* C15 (as claimed): over a workspace all of whose graph nodes are members, the
\* count Publisher.publish returns is the number of packages whose publish call
\* failed.
C15_FailureCountIsNumberFailed ==
  (subcommand = "publish" /\ AllMembers /\ pc \in {"returned", "exited"} /\ exc = "None") =>
    ret = Some(Cardinality(FailedPackages))

\* the process has come to the end of main without an exception
Ended == pc \in {"returned", "exited"} /\ exc = "None"

\* C16 (as claimed): at the end of every publish run a summary has been printed
\* that lists every package of the order.
C16_SummaryAlwaysProduced ==
  (subcommand = "publish" /\ Ended) =>
    \E k \in 1..Len(stdout) :
      /\ stdout[k].kind = "summary"
      /\ DOMAIN stdout[k].status = Range(publish_order)

\* C17 (as claimed): a health check that returns has printed the publish order
\* and has made no registry call.
C17_HealthCheckPrintsOrder ==
  (subcommand = "health-check" /\ Ended) =>
    /\ calls = <<>>
    /\ \E k \in 1..Len(stdout) : stdout[k] = OrderLine(publish_order)

\* C17 (amended): a health check makes no cargo search, no cargo publish and no
\* sleep, and leaves the registry and every package as they were; when it
\* returns it has computed the order of every graph node, and has printed it
\* if and only if it was run with --verbose.
C17_HealthCheckOffline ==
  subcommand = "health-check" =>
    /\ calls = <<>>
    /\ clock = 0
    /\ registry = registry0
    /\ outcome = AllPending
    /\ pc \notin {"loop", "publish_crate", "sleep"}
    /\ Ended =>
         /\ ret = Some(0)
         /\ Range(publish_order) = GraphNodes(manifests)
         /\ stdout = IF verbose THEN <<OrderLine(publish_order)>> ELSE <<>>

C17_Witness ==
  /\ subcommand = "health-check"
  /\ verbose
  /\ pc = "exited"
  /\ Len(publish_order) = 2
  /\ stdout = <<OrderLine(publish_order)>>
  /\ \E n \in Names : registry[n] # None

\* C18 (as claimed): the Publisher of a publish command given --version has
\* that version as its Publisher.version, and the workspace version otherwise.
C18_VersionOverrideIsTarget ==
  (subcommand = "publish" /\ Built) =>
    version = IF version_arg # None THEN version_arg ELSE Some(ws_version)

\* C20: a cargo publish carries --features if and only if its crate has an
\* entry in publish_features, and then that entry; in dry-run and in live mode.
C20_FeaturesOnlyForOwnEntry ==
  \A k \in 1..Len(calls) :
    IF calls[k].op = "publish"
    THEN /\ calls[k].features # None <=> calls[k].crate \in DOMAIN publish_features
         /\ calls[k].features # None =>
              calls[k].features = Some(publish_features[calls[k].crate])
    ELSE calls[k].features = None

C20_Witness ==
  /\ ~dry_run
  /\ \E i, j \in 1..Len(calls) :
       /\ calls[i].op = "publish"
       /\ calls[j].op = "publish"
       /\ calls[i].features # None
       /\ calls[j].features = None

\* the positions of the call log with a call of kind op for crate n
CallsOf(op, n) == {k \in 1..Len(calls) : calls[k].op = op /\ calls[k].crate = n}

\* the position of a name in the publish order
OrderIndex(n) == CHOOSE i \in 1..Len(publish_order) : publish_order[i] = n

\* C21: a package found already published has no publish call and no sleep, in
\* live as in dry-run mode; the call that follows its version query, if any, is
\* the version query of the next package of the order, made at the same time.
C21_SkippedNotPublishedNoDelay ==
  \A n \in Names :
    outcome[n] = "Skipped" =>
      /\ CallsOf("publish", n) = {}
      /\ CallsOf("sleep", n) = {}
      /\ status = [m \in DOMAIN status \ {n} |-> status[m]]
      /\ \A k \in CallsOf("search", n) :
           k < Len(calls) =>
             /\ calls[k + 1].op = "search"
             /\ calls[k + 1].at = calls[k].at
             /\ calls[k + 1].crate = publish_order[OrderIndex(n) + 1]

C21_Witness ==
  /\ ~dry_run
  /\ Len(calls) = 3
  /\ outcome[calls[1].crate] = "Skipped"
  /\ calls[2].op = "search"
  /\ calls[2].crate # calls[1].crate
  /\ calls[3].op = "publish"
  /\ calls[3].ok

\* what the states of the packages tell about the calls of the run
OutcomeJustified ==
  \A n \in Names :
    /\ outcome[n] \in Terminal \cup {"Pending"}
    /\ Cardinality(CallsOf("search", n)) <= 1
    /\ Cardinality(CallsOf("publish", n)) <= 1
    /\ outcome[n] = "Published" =>
         /\ is_crate_already_published(n, registry0[n]) = "False"
         /\ \E k \in CallsOf("publish", n) : calls[k].ok
    /\ outcome[n] = "Failed" =>
         /\ is_crate_already_published(n, registry0[n]) = "False"
         /\ n \in DOMAIN status
         /\ status[n] # "None"
         /\ \A k \in CallsOf("publish", n) : ~calls[k].ok
    /\ outcome[n] = "Skipped" => is_crate_already_published(n, registry0[n]) = "True"

\* a state of a package changes only from Pending, and only to a terminal state
OneTransition ==
  \A n \in Names :
    outcome'[n] # outcome[n] => (outcome[n] = "Pending" /\ outcome'[n] \in Terminal)

\* C22: in a run every package starts Pending and changes state at most once,
\* to Skipped, Published or Failed; Published only after a skip check that said
\* no and a publish call that succeeded, Failed only after publish_crate
\* returned an exception; no package has a second version query or publish call.
C22_OneTransitionPerPackage ==
  [](Built => OutcomeJustified) /\ [][OneTransition]_vars

C22_Witness ==
  /\ pc = "returned"
  /\ \E a, b \in Names : outcome[a] = "Failed" /\ outcome[b] = "Skipped"

\* the crates of the calls of kind op, in the order of the call log
RECURSIVE CratesOfCalls(_, _)
CratesOfCalls(op, k) ==
  IF k = 0 THEN <<>>
  ELSE IF calls[k].op = op THEN Append(CratesOfCalls(op, k - 1), calls[k].crate)
       ELSE CratesOfCalls(op, k - 1)

\* the calls follow the plan: the version queries are those of a prefix of the
\* order, a publish call comes right after the answered version query of its
\* crate, a sleep right after the last call for its crate
CallsFollowPlan ==
  /\ LET q == CratesOfCalls("search", Len(calls))
     IN Len(q) <= Len(publish_order) /\ q = SubSeq(publish_order, 1, Len(q))
  /\ \A k \in 1..Len(calls) :
       /\ calls[k].op = "publish" =>
            /\ k > 1
            /\ calls[k - 1].op = "search"
            /\ calls[k - 1].ok
            /\ calls[k - 1].crate = calls[k].crate
       /\ calls[k].op = "sleep" =>
            /\ k > 1
            /\ calls[k - 1].op \in {"search", "publish"}
            /\ calls[k - 1].crate = calls[k].crate
       /\ k > 1 => calls[k].at >= calls[k - 1].at

\* C23: the registry calls are made one after the other along the publish
\* order, the version query of a package right before its publish call, and the
\* order computed when the Publisher was built never changes afterwards.
C23_SequentialWalkOfFixedPlan ==
  []CallsFollowPlan /\ [][Built => publish_order' = publish_order]_vars

C23_Witness ==
  /\ ~dry_run
  /\ pc = "returned"
  /\ Len(publish_order) = 2
  /\ Len(calls) = 6
  /\ registry # registry0

\* C24 (as claimed): in a live run a sleep follows only a package that was
\* published.
C24_DelayOnlyAfterPublished ==
  ~dry_run =>
    \A k \in 1..Len(calls) :
      calls[k].op = "sleep" => outcome[calls[k].crate] = "Published"

\* a table and every table below it, under whatever key
RECURSIVE TablesOf(_)
TablesOf(t) ==
  {t} \cup UNION {TablesOf(c) : c \in Range(t.target) \cup Range(t.cfg) \cup Range(t.other)}

\* an entry declares a dependency by a local path
IsLocal(e) == e.is_table /\ e.path
\* the package an entry names: its "package" field, or else its key
PackageOf(e) == IF e.package = None THEN e.key ELSE e.package[1]
\* the packages that the local-path entries of a dependency table name
LocalPackages(entries) == {PackageOf(e) : e \in {x \in entries : IsLocal(x)}}

\* the packages named by a local-path dependency in any section of a manifest
DeclaredLocalPackages(toml) ==
  UNION {LocalPackages(t.dependencies) \cup LocalPackages(t.dev_dependencies) :
           t \in TablesOf(toml)}

\* C25 (as claimed): the dependencies of every crate are the packages its
\* manifest names by a local path in any section: at the top, under
\* target.'cfg(..)' and under target.<triple> alike, at any depth.
C25_AllSectionsCollected ==
  \A i \in 1..Len(crates) :
    Range(crates[i].dependencies) = DeclaredLocalPackages(manifests[crates[i].name])

\* C26: every local-path entry of the top-level dependency tables of a crate's
\* manifest contributes the package it names (its "package" field if it has
\* one, else its key) to the crate's dependencies, and every dependency of the
\* crate is the package named by some local-path entry of the manifest: alias
\* keys and entries without a path contribute nothing.
C26_RenameResolved ==
  \A i \in 1..Len(crates) :
    LET toml == manifests[crates[i].name]
        deps == Range(crates[i].dependencies)
    IN /\ \A e \in toml.dependencies \cup toml.dev_dependencies :
            IsLocal(e) => PackageOf(e) \in deps
       /\ \A n \in deps :
            \E t \in TablesOf(toml) : \E e \in t.dependencies \cup t.dev_dependencies :
              IsLocal(e) /\ PackageOf(e) = n

C26_Witness ==
  /\ Len(crates) = TomlNames
  /\ \E i \in 1..Len(crates) :
       /\ crates[i].dependencies = <<2>>
       /\ manifests[crates[i].name].dependencies = {RenamedPathDep(2)}

\* the packages of the top-level local-path dev-dependencies of a member
DevEdges(a) == LocalPackages(manifests[a].dev_dependencies)
\* ... and of its top-level local-path dependencies of both kinds
TopEdges(a) ==
  IF a \in DOMAIN manifests
  THEN LocalPackages(manifests[a].dependencies) \cup DevEdges(a)
  ELSE {}

RECURSIVE ReachableTop(_)
ReachableTop(S) ==
  LET T == S \cup UNION {TopEdges(n) : n \in S}
  IN IF T = S THEN S ELSE ReachableTop(T)

\* C28: once the Publisher is built, every member comes after each of its local
\* dev-dependencies in the publish order; and when a dev-dependency of a member
\* leads back to the member, building the Publisher ends with CycleError.
C28_DevDependenciesAreEdges ==
  Built =>
    /\ exc # "CycleError" =>
         \A a \in DOMAIN manifests : \A b \in DevEdges(a) : Precedes(b, a, publish_order)
    /\ (\E a \in DOMAIN manifests : \E b \in DevEdges(a) : a \in ReachableTop({b})) =>
         exc = "CycleError"

C28_Witness ==
  /\ Constructed
  /\ DevEdges(1) = {2}
  /\ manifests[1].dependencies = {}
  /\ publish_order = <<2, 1>>

\* C27: from the moment the Publisher is built, the process is in the starting
\* directory whenever publish_crate is not running: after publish_crate returned
\* (cargo publish succeeded, failed, or the name was not in crate_index), and so
\* at every version query and at every entry of publish_crate.
C27_BackInStartingDir ==
  Constructed =>
    /\ starting_dir = Some(RootDir)
    /\ cwd = starting_dir[1]
    /\ \A i \in 1..Len(calls) : calls[i].from = starting_dir[1]

C27_Witness ==
  /\ Constructed
  /\ \E a \in DOMAIN status : status[a] = "KeyError"
  /\ \E i \in 1..Len(calls) :
       /\ calls[i].op = "publish"
       /\ calls[i].cwd = CratePath(calls[i].crate)
       /\ ~calls[i].ok
  /\ pc = "returned"
  /\ cwd = RootDir

\* a check line that counts as pending, unreported or failing; a line of bors
\* does not count for containing "pending" or "fail"
PendingLine(l) == l.start = "*" \/ (l.pending /\ ~l.bors)
UnreportedLine(l) == l.no_checks_reported
FailingLine(l) == l.start = "X" \/ (l.fail /\ ~l.bors)

\* C29: publish.py has been started only if the version was not found already
\* released and the last poll of the checks had no pending, unreported or failing
\* line; it is started at most once; and after a poll with a line that starts
\* with X, or with a line without "bors" that contains "fail", the release has
\* ended with "check failed" and publish.py was never started.
C29_PublishOnlyAfterPassedChecks ==
  /\ publishes <= 1
  /\ already_released => publishes = 0
  /\ publishes > 0 =>
       /\ checks # None
       /\ \A i \in 1..Len(checks[1].lines) :
            LET l == checks[1].lines[i]
            IN ~PendingLine(l) /\ ~UnreportedLine(l) /\ ~FailingLine(l)
  /\ (checks # None /\ \E i \in 1..Len(checks[1].lines) : FailingLine(checks[1].lines[i])) =>
       /\ release_pc \in {"raised", "exited"}
       /\ err = "check failed"
       /\ publishes = 0

C29_Witness ==
  /\ publishes = 1
  /\ release_pc = "git_log"
  /\ Len(checks[1].lines) = MaxLines
  /\ \E i \in 1..Len(checks[1].lines) :
       checks[1].lines[i].bors /\ checks[1].lines[i].pending
  /\ ~checks[1].returncode_zero

\* the positions inside make_release
MakeReleaseStages ==
  {"make_release", "checks", "publish", "git_log", "merge_wait", "tag", "release_wait",
   "release_edit"}

\* make_release is left by an exception only, and by "script done and merged"
\* exactly from its last statement
LeavesByRaising ==
  /\ (release_pc \in MakeReleaseStages /\ release_pc' \notin MakeReleaseStages) =>
       (release_pc' = "raised" /\ err' # "None")
  /\ (release_pc = "release_edit" /\ release_pc' # release_pc) =>
       err' = "script done and merged"
  /\ (err' = "script done and merged" /\ err # err') => release_pc = "release_edit"

\* C30: make_release never returns: it is left by an exception, which is "script
\* done and merged" when it ran to its last statement.  While the handler loops,
\* every say so far returned 0; once the script has exited after make_release
\* was called, its last say, and no earlier one, returned nonzero.
C30_NeverReturnsSayLoop ==
  /\ [](/\ release_pc # "returned"
        /\ release_pc = "raised" =>
             /\ err # "None"
             /\ \A i \in 1..Len(say_codes) : say_codes[i] = 0
        /\ (release_pc = "exited" /\ script_exit # Some(1)) =>
             /\ err # "None"
             /\ say_codes # <<>>
             /\ say_codes[Len(say_codes)] # 0
             /\ \A i \in 1..(Len(say_codes) - 1) : say_codes[i] = 0)
  /\ [][LeavesByRaising]_vars

C30_Witness ==
  /\ release_pc = "exited"
  /\ err = "script done and merged"
  /\ say_codes = <<0, 1>>

====
